---- MODULE Spec2Model ----
(***************************************************************************)
(* A model of the lawncare job management prototype (src/app.py): the      *)
(* Booking record and its occurrence_dates method, the in-memory stores    *)
(* ClientDB, ServiceCatalog and BookingManager, and the menu loop of       *)
(* interactive_menu / main.                                                *)
(*                                                                         *)
(* Dates are records [year, month, day]; date + timedelta goes through the *)
(* proleptic Gregorian ordinal exactly as datetime.date does, and raises   *)
(* OverflowError outside 0001-01-01 .. 9999-12-31.  Lines typed at a       *)
(* prompt are sequences of one-character strings, so that strip, lower,    *)
(* upper, int(), float() and strptime() are computed, not assumed.         *)
(***************************************************************************)
EXTENDS Integers, Sequences, FiniteSets, TLC

VARIABLES pc, clients, clientCounter, services, bookings, bookingCounter,
          clientLog, bookingLog, event, out, args, self, calls

vars == <<pc, clients, clientCounter, services, bookings, bookingCounter,
          clientLog, bookingLog, event, out, args, self, calls>>

\* Python's None (a record, so that it compares with the records that stand
\* for objects).
None == [None |-> TRUE]

(***************************************************************************)
(* Bounds of the model.                                                    *)
(***************************************************************************)
\* itertools.count is unbounded: at most this many clients are ever added.
MaxClients == 3
\* ... and at most this many bookings.
MaxBookings == 2
\* Largest occurrence count handed to a Booking under test.
MaxOccurrences == 3
\* How often occurrence_dates is called on the Booking under test.
MaxCalls == 2

(***************************************************************************)
(* datetime.date and timedelta, as used by occurrence_dates.               *)
(***************************************************************************)
Date(y, m, d) == [year |-> y, month |-> m, day |-> d]

_is_leap(y) == y % 4 = 0 /\ (y % 100 # 0 \/ y % 400 = 0)

_days_in_month(y, m) ==
    IF m = 2 THEN (IF _is_leap(y) THEN 29 ELSE 28)
    ELSE IF m \in {4, 6, 9, 11} THEN 30 ELSE 31

\* Days before the first of month m in a non-leap year.
_DAYS_BEFORE_MONTH(m) ==
    <<0, 31, 59, 90, 120, 151, 181, 212, 243, 273, 304, 334>>[m]

_days_before_year(y) ==
    (y - 1) * 365 + (y - 1) \div 4 - (y - 1) \div 100 + (y - 1) \div 400

_days_before_month(y, m) ==
    _DAYS_BEFORE_MONTH(m) + (IF m > 2 /\ _is_leap(y) THEN 1 ELSE 0)

\* date.toordinal(): 0001-01-01 is day 1.
toordinal(d) ==
    _days_before_year(d.year) + _days_before_month(d.year, d.month) + d.day

\* date.fromordinal(n), 1 <= n <= 3652059.
fromordinal(n) ==
    LET n0   == n - 1
        n400 == n0 \div 146097
        r400 == n0 % 146097
        n100 == r400 \div 36524
        r100 == r400 % 36524
        n4   == r100 \div 1461
        r4   == r100 % 1461
        n1   == r4 \div 365
        r1   == r4 % 365
        y    == n400 * 400 + 1 + n100 * 100 + n4 * 4 + n1
        leap == n1 = 3 /\ (n4 # 24 \/ n100 = 3)
        m0   == (r1 + 50) \div 32
        p0   == _DAYS_BEFORE_MONTH(m0) + (IF m0 > 2 /\ leap THEN 1 ELSE 0)
        m    == IF p0 > r1 THEN m0 - 1 ELSE m0
        p    == IF p0 > r1
                THEN p0 - ((IF m = 2 THEN 28
                            ELSE IF m \in {4, 6, 9, 11} THEN 30 ELSE 31)
                           + (IF m = 2 /\ leap THEN 1 ELSE 0))
                ELSE p0
    IN  IF n1 = 4 \/ n100 = 4
        THEN Date(y - 1, 12, 31)
        ELSE Date(y, m, r1 - p + 1)

\* date.__add__(timedelta(days)): the new date, or OverflowError.
DateAdd(d, days) ==
    LET o == toordinal(d) + days
    IN  IF 0 < o /\ o <= 3652059
        THEN [raised |-> FALSE, value |-> fromordinal(o)]
        ELSE [raised |-> TRUE, value |-> None]

\* date.__lt__
DateLess(a, b) == toordinal(a) < toordinal(b)

(***************************************************************************)
(* RepeatFrequency and Booking.                                            *)
(***************************************************************************)
NONE == "RepeatFrequency.NONE"
WEEKLY == "RepeatFrequency.WEEKLY"
FORTNIGHTLY == "RepeatFrequency.FORTNIGHTLY"
MONTHLY == "RepeatFrequency.MONTHLY"
RepeatFrequency == {NONE, WEEKLY, FORTNIGHTLY, MONTHLY}

Booking(id, client_id, service_code, scheduled_date, repeat, occurrences, notes) ==
    [id |-> id, client_id |-> client_id, service_code |-> service_code,
     scheduled_date |-> scheduled_date, repeat |-> repeat,
     occurrences |-> occurrences, notes |-> notes]

\* Advance with the monthly branch computing current + timedelta(days=30)
\* without assigning it: current stays where it was.
Advance_monthly_unassigned(current, repeat) ==
    IF repeat = WEEKLY THEN DateAdd(current, 7 * 1)
    ELSE IF repeat = FORTNIGHTLY THEN DateAdd(current, 7 * 2)
    ELSE [raised |-> FALSE, value |-> current]

\* One pass of the loop body: the branch on self.repeat; a value that is
\* none of the three leaves current as it is.
Advance(current, repeat) ==
    IF repeat = WEEKLY THEN DateAdd(current, 7 * 1)
    ELSE IF repeat = FORTNIGHTLY THEN DateAdd(current, 7 * 2)
    ELSE IF repeat = MONTHLY THEN DateAdd(current, 30)
    ELSE [raised |-> FALSE, value |-> current]

\* for _ in range(k): advance current, append it.  DatesLoop is the loop
\* test, LoopBody the body once current + timedelta has been evaluated to
\* nxt: an OverflowError leaves the method, anything else is appended.
RECURSIVE DatesLoop(_, _, _, _)
RECURSIVE LoopBody(_, _, _, _)
LoopBody(repeat, nxt, dates, k) ==
    IF nxt.raised THEN [raised |-> TRUE, ret |-> <<>>]
    ELSE DatesLoop(repeat, nxt.value, Append(dates, nxt.value), k - 1)

DatesLoop(repeat, current, dates, k) ==
    IF k <= 0 THEN [raised |-> FALSE, ret |-> dates]
    ELSE LoopBody(repeat, Advance(current, repeat), dates, k)

\* What a call of a method of b gives: b after the call, whether the call
\* raised, and the value it returned.
Outcome(b, r) == [self |-> b, raised |-> r.raised, ret |-> r.ret]

\* occurrence_dates with the loop running range(self.occurrences) times.
occurrence_dates_range_n(b) ==
    IF b.occurrences <= 1 \/ b.repeat = NONE
    THEN [self |-> b, raised |-> FALSE, ret |-> <<b.scheduled_date>>]
    ELSE Outcome(b, DatesLoop(b.repeat, b.scheduled_date, <<b.scheduled_date>>,
                              b.occurrences))

\* occurrence_dates with "and" for "or" in its first test.
occurrence_dates_and(b) ==
    IF b.occurrences <= 1 /\ b.repeat = NONE
    THEN [self |-> b, raised |-> FALSE, ret |-> <<b.scheduled_date>>]
    ELSE Outcome(b, DatesLoop(b.repeat, b.scheduled_date, <<b.scheduled_date>>,
                              b.occurrences - 1))

\* occurrence_dates advancing self.scheduled_date instead of a local: the
\* booking is left on the last date it returned.
MovedOutcome(b, r) ==
    [self   |-> IF r.raised THEN b
                ELSE [b EXCEPT !.scheduled_date = r.ret[Len(r.ret)]],
     raised |-> r.raised, ret |-> r.ret]

occurrence_dates_moving_self(b) ==
    IF b.occurrences <= 1 \/ b.repeat = NONE
    THEN [self |-> b, raised |-> FALSE, ret |-> <<b.scheduled_date>>]
    ELSE MovedOutcome(b, DatesLoop(b.repeat, b.scheduled_date,
                                   <<b.scheduled_date>>, b.occurrences - 1))

\* Booking.occurrence_dates.  The method assigns only to its locals dates
\* and current, so the booking after the call is the booking before it.
occurrence_dates(b) ==
    IF b.occurrences <= 1 \/ b.repeat = NONE
    THEN [self |-> b, raised |-> FALSE, ret |-> <<b.scheduled_date>>]
    ELSE Outcome(b, DatesLoop(b.repeat, b.scheduled_date, <<b.scheduled_date>>,
                              b.occurrences - 1))

(***************************************************************************)
(* Text typed at a prompt: a sequence of one-character strings.            *)
(***************************************************************************)
Digits == {"0", "1", "2", "3", "4", "5", "6", "7", "8", "9"}

DigitVal(c) ==
    CASE c = "0" -> 0 [] c = "1" -> 1 [] c = "2" -> 2 [] c = "3" -> 3
      [] c = "4" -> 4 [] c = "5" -> 5 [] c = "6" -> 6 [] c = "7" -> 7
      [] c = "8" -> 8 [] c = "9" -> 9

UpperCase == <<"A", "B", "C", "D", "E", "F", "G", "H", "I", "J", "K", "L", "M",
               "N", "O", "P", "Q", "R", "S", "T", "U", "V", "W", "X", "Y", "Z">>
LowerCase == <<"a", "b", "c", "d", "e", "f", "g", "h", "i", "j", "k", "l", "m",
               "n", "o", "p", "q", "r", "s", "t", "u", "v", "w", "x", "y", "z">>

\* c carried from alphabet from to alphabet to, or c itself.
Translate(c, from, to) ==
    IF \E i \in 1..26 : from[i] = c
    THEN to[CHOOSE i \in 1..26 : from[i] = c] ELSE c

LowerChar(c) == Translate(c, UpperCase, LowerCase)
UpperChar(c) == Translate(c, LowerCase, UpperCase)

\* str.lower(), str.upper()
lower(s) == [i \in 1..Len(s) |-> LowerChar(s[i])]
upper(s) == [i \in 1..Len(s) |-> UpperChar(s[i])]

\* str.strip(): leading and trailing blanks removed.
RECURSIVE lstrip(_)
lstrip(s) == IF s # <<>> /\ Head(s) = " " THEN lstrip(Tail(s)) ELSE s
RECURSIVE rstrip(_)
rstrip(s) ==
    IF s # <<>> /\ s[Len(s)] = " " THEN rstrip(SubSeq(s, 1, Len(s) - 1)) ELSE s
strip(s) == rstrip(lstrip(s))

AllDigits(s) == s # <<>> /\ \A i \in 1..Len(s) : s[i] \in Digits

\* The value of a non-empty string of decimal digits.
RECURSIVE DecimalValue(_)
DecimalValue(s) ==
    IF s = <<>> THEN 0
    ELSE 10 * DecimalValue(SubSeq(s, 1, Len(s) - 1)) + DigitVal(s[Len(s)])

\* int(s) for a string: blanks around it, an optional sign, decimal digits;
\* anything else raises ValueError.
int(s) ==
    LET t    == strip(s)
        sgn  == t # <<>> /\ Head(t) \in {"+", "-"}
        body == IF sgn THEN Tail(t) ELSE t
    IN  IF AllDigits(body)
        THEN [raised |-> FALSE,
              value  |-> IF sgn /\ Head(t) = "-"
                         THEN 0 - DecimalValue(body) ELSE DecimalValue(body)]
        ELSE [raised |-> TRUE, value |-> None]

\* The first index of character c in s, or 0.
IndexOf(s, c) ==
    IF \E i \in 1..Len(s) : s[i] = c
    THEN CHOOSE i \in 1..Len(s) : s[i] = c /\ \A j \in 1..(i - 1) : s[j] # c
    ELSE 0

\* float(s) for a string: an optional sign, digits, an optional point and
\* digits (at least one digit in all); anything else raises ValueError.  The
\* value is kept exactly, as sign, whole part and the digits after the point.
float(s) ==
    LET t     == strip(s)
        sgn   == t # <<>> /\ Head(t) \in {"+", "-"}
        body  == IF sgn THEN Tail(t) ELSE t
        dot   == IndexOf(body, ".")
        whole == IF dot = 0 THEN body ELSE SubSeq(body, 1, dot - 1)
        frac  == IF dot = 0 THEN <<>> ELSE SubSeq(body, dot + 1, Len(body))
        isnum == /\ \A i \in 1..Len(whole) : whole[i] \in Digits
                 /\ \A i \in 1..Len(frac) : frac[i] \in Digits
                 /\ Len(whole) + Len(frac) > 0
    IN  IF isnum
        THEN [raised |-> FALSE,
              value  |-> [negative |-> sgn /\ Head(t) = "-",
                          whole |-> DecimalValue(whole), frac |-> frac]]
        ELSE [raised |-> TRUE, value |-> None]

\* The fields of s between the "-" separators.
RECURSIVE SplitDash(_)
SplitDash(s) ==
    LET i == IndexOf(s, "-")
    IN  IF i = 0 THEN <<s>>
        ELSE <<SubSeq(s, 1, i - 1)>> \o SplitDash(SubSeq(s, i + 1, Len(s)))

\* datetime.strptime(s, "%Y-%m-%d").date(): a four-digit year, a month
\* 1..12 and a day 1..31 of one or two digits, which must then name a day
\* of the calendar; anything else raises ValueError.
strptime(s) ==
    LET f  == SplitDash(s)
        ok == /\ Len(f) = 3
              /\ AllDigits(f[1]) /\ Len(f[1]) = 4
              /\ AllDigits(f[2]) /\ Len(f[2]) \in {1, 2}
              /\ AllDigits(f[3]) /\ Len(f[3]) \in {1, 2}
              /\ DecimalValue(f[2]) \in 1..12
              /\ DecimalValue(f[3]) \in 1..31
              /\ DecimalValue(f[1]) >= 1
              /\ DecimalValue(f[3]) <=
                     _days_in_month(DecimalValue(f[1]), DecimalValue(f[2]))
    IN  IF ok
        THEN [raised |-> FALSE,
              value  |-> Date(DecimalValue(f[1]), DecimalValue(f[2]),
                              DecimalValue(f[3]))]
        ELSE [raised |-> TRUE, value |-> None]

\* Text constants of the source, as typed.
Txt_MOW == <<"M", "O", "W">>
Txt_EDGE == <<"E", "D", "G", "E">>
Txt_TRIM == <<"T", "R", "I", "M">>
Txt_Jane == <<"J", "a", "n", "e">>
Txt_Doe == <<"D", "o", "e">>
Txt_John == <<"J", "o", "h", "n">>
Txt_Smith == <<"S", "m", "i", "t", "h">>
Txt_none == <<"n", "o", "n", "e">>

\* RepeatFrequency._value2member_map_
_value2member_map_ ==
    (Txt_none :> NONE)
    @@ (<<"w", "e", "e", "k", "l", "y">> :> WEEKLY)
    @@ (<<"f", "o", "r", "t", "n", "i", "g", "h", "t", "l", "y">> :> FORTNIGHTLY)
    @@ (<<"m", "o", "n", "t", "h", "l", "y">> :> MONTHLY)

\* The menu's reading of the repeat prompt: strip, lower, "none" when empty,
\* and NONE for a string that is no value of the enumeration.
ParseRepeat(line) ==
    LET t          == lower(strip(line))
        repeat_str == IF t = <<>> THEN Txt_none ELSE t
    IN  IF repeat_str \in DOMAIN _value2member_map_
        THEN _value2member_map_[repeat_str] ELSE NONE

(***************************************************************************)
(* The in-memory stores.  A store is its dictionary and the next value of  *)
(* its itertools.count; an operation returns the store after it and its    *)
(* return value.                                                           *)
(***************************************************************************)
Client(id, first_name, last_name, email, phone, address, notes) ==
    [id |-> id, first_name |-> first_name, last_name |-> last_name,
     email |-> email, phone |-> phone, address |-> address, notes |-> notes]

Service(code, name, description, base_price, duration_minutes) ==
    [code |-> code, name |-> name, description |-> description,
     base_price |-> base_price, duration_minutes |-> duration_minutes]

EmptyDict == <<>>

\* dict[key] = value
DictSet(d, k, v) == [x \in DOMAIN d \cup {k} |-> IF x = k THEN v ELSE d[x]]

\* dict.get(key)
DictGet(d, k) == IF k \in DOMAIN d THEN d[k] ELSE None

\* ClientDB.add drawing its id from a counter that does not advance.
ClientDB_add_stuck_counter(db, counter, first_name, last_name, email, phone, address, notes) ==
    [db      |-> DictSet(db, counter, Client(counter, first_name, last_name, email,
                                             phone, address, notes)),
     counter |-> counter,
     ret     |-> Client(counter, first_name, last_name, email, phone, address, notes)]

ClientDB_add(db, counter, first_name, last_name, email, phone, address, notes) ==
    LET cid    == counter
        client == Client(cid, first_name, last_name, email, phone, address, notes)
    IN  [db |-> DictSet(db, cid, client), counter |-> counter + 1, ret |-> client]

ClientDB_get(db, client_id) == DictGet(db, client_id)

\* ServiceCatalog._services is a dict iterated in insertion order: a sequence
\* of services with distinct codes; storing under a code already present
\* replaces the service where it stands.
ServiceCatalog_add(cat, code, name, description, base_price, duration_minutes) ==
    LET svc == Service(upper(code), name, description, base_price, duration_minutes)
    IN  [cat |-> IF \E i \in 1..Len(cat) : cat[i].code = svc.code
                 THEN [i \in 1..Len(cat) |->
                         IF cat[i].code = svc.code THEN svc ELSE cat[i]]
                 ELSE Append(cat, svc),
         ret |-> svc]

ServiceCatalog_get(cat, code) ==
    IF \E i \in 1..Len(cat) : cat[i].code = upper(code)
    THEN cat[CHOOSE i \in 1..Len(cat) : cat[i].code = upper(code)]
    ELSE None

Max(a, b) == IF a >= b THEN a ELSE b

\* BookingManager.add storing occurrences as given, without max(1, ...).
BookingManager_add_unclamped(mgr, counter, client_id, service_code, scheduled_date, repeat, occurrences, notes) ==
    [mgr     |-> DictSet(mgr, counter,
                         Booking(counter, client_id, upper(service_code),
                                 scheduled_date, repeat, occurrences, notes)),
     counter |-> counter + 1,
     ret     |-> Booking(counter, client_id, upper(service_code), scheduled_date,
                         repeat, occurrences, notes)]

BookingManager_add(mgr, counter, client_id, service_code, scheduled_date, repeat, occurrences, notes) ==
    LET bid     == counter
        booking == Booking(bid, client_id, upper(service_code), scheduled_date,
                           repeat, Max(1, occurrences), notes)
    IN  [mgr |-> DictSet(mgr, bid, booking), counter |-> counter + 1,
         ret |-> booking]

BookingManager_get(mgr, booking_id) == DictGet(mgr, booking_id)

(***************************************************************************)
(* Rendering for display.                                                  *)
(***************************************************************************)
DigitChar(n) == <<"0", "1", "2", "3", "4", "5", "6", "7", "8", "9">>[n + 1]

\* n in decimal, zero-padded to width w.
RECURSIVE ZeroPad(_, _)
ZeroPad(n, w) ==
    IF w <= 0 THEN <<>> ELSE Append(ZeroPad(n \div 10, w - 1), DigitChar(n % 10))

\* date.isoformat(): YYYY-MM-DD
isoformat(d) ==
    ZeroPad(d.year, 4) \o <<"-">> \o ZeroPad(d.month, 2) \o <<"-">> \o ZeroPad(d.day, 2)

\* RepeatFrequency.value
RepeatValue(member) ==
    CHOOSE v \in DOMAIN _value2member_map_ : _value2member_map_[v] = member

\* Client.full_name
full_name(c) == strip(c.first_name \o <<" ">> \o c.last_name)

\* dict.values() of a store keyed by ids: insertion order, which is the
\* order of the ids, since every new id is larger than those before it.
ListValues(d) ==
    [i \in 1..Cardinality(DOMAIN d) |->
       d[CHOOSE k \in DOMAIN d : Cardinality({j \in DOMAIN d : j < k}) = i - 1]]

ClientDB_list(db) == ListValues(db)
BookingManager_list(mgr) == ListValues(mgr)
ServiceCatalog_list(cat) == cat

_print_clients(db) ==
    LET l == ClientDB_list(db)
    IN  <<"Clients:">> \o
        [i \in 1..Len(l) |->
           <<l[i].id, full_name(l[i]), l[i].email, l[i].phone, l[i].address>>]

_print_services(cat) ==
    LET l == ServiceCatalog_list(cat)
    IN  <<"Services:">> \o
        [i \in 1..Len(l) |->
           <<l[i].code, l[i].name, l[i].base_price, l[i].duration_minutes>>]

\* The line _print_bookings prints for booking b with its occurrences occ,
\* client and svc being what the two get calls returned.
BookingLine(b, occ, client, svc) ==
    <<b.id,
      IF client # None THEN full_name(client) ELSE <<"Unknown Client">>,
      IF svc # None THEN svc.name ELSE b.service_code,
      isoformat(b.scheduled_date), RepeatValue(b.repeat), b.occurrences,
      [i \in 1..Len(occ) |-> isoformat(occ[i])]>>

\* The loop of _print_bookings from the k-th booking on (PrintLoop), and
\* its body once b.occurrence_dates() has been evaluated to r (PrintBody):
\* a call that raised ends the loop, and the lines printed before it stay
\* printed.  The result is the manager after the calls, what was printed,
\* and whether a call raised.
RECURSIVE PrintLoop(_, _, _, _, _)
RECURSIVE PrintBody(_, _, _, _, _, _)
PrintBody(mgr, k, db, cat, printed, r) ==
    IF r.raised
    THEN [mgr |-> [mgr EXCEPT ![k] = r.self], out |-> printed, raised |-> TRUE]
    ELSE PrintLoop([mgr EXCEPT ![k] = r.self], k + 1, db, cat,
                   Append(printed,
                          BookingLine(r.self, r.ret,
                                      ClientDB_get(db, r.self.client_id),
                                      ServiceCatalog_get(cat, r.self.service_code))))

PrintLoop(mgr, k, db, cat, printed) ==
    IF k > Cardinality(DOMAIN mgr)
    THEN [mgr |-> mgr, out |-> printed, raised |-> FALSE]
    ELSE PrintBody(mgr, k, db, cat, printed,
                   occurrence_dates(BookingManager_list(mgr)[k]))

_print_bookings(mgr, db, cat) == PrintLoop(mgr, 1, db, cat, <<"Bookings:">>)

\* _seed_data: two clients and three services, each only into an empty store.
_seed_data(db, counter, cat) ==
    LET a1 == ClientDB_add(db, counter, Txt_Jane, Txt_Doe, <<"jane@example.com">>,
                           <<"+1-555-1111">>, <<"12 Green St, Springfield 12345">>,
                           <<>>)
        a2 == ClientDB_add(a1.db, a1.counter, Txt_John, Txt_Smith,
                           <<"john@example.com">>, <<"+1-555-2222">>,
                           <<"34 Oak Ave, Shelbyville 67890">>,
                           <<"Has large dog in backyard">>)
        s1 == ServiceCatalog_add(cat, Txt_MOW, <<"Mowing">>,
                                 <<"Standard lawn mowing">>,
                                 [negative |-> FALSE, whole |-> 60, frac |-> <<"0">>], 45)
        s2 == ServiceCatalog_add(s1.cat, Txt_EDGE, <<"Edging">>,
                                 <<"Edge trimming around paths and beds">>,
                                 [negative |-> FALSE, whole |-> 35, frac |-> <<"0">>], 30)
        s3 == ServiceCatalog_add(s2.cat, Txt_TRIM, <<"Trimming">>,
                                 <<"Hedge/bush trimming">>,
                                 [negative |-> FALSE, whole |-> 80, frac |-> <<"0">>], 60)
        seedClients == ClientDB_list(db) = <<>>
    IN  [db      |-> IF seedClients THEN a2.db ELSE db,
         counter |-> IF seedClients THEN a2.counter ELSE counter,
         added   |-> IF seedClients THEN <<a1.ret, a2.ret>> ELSE <<>>,
         cat     |-> IF ServiceCatalog_list(cat) = <<>> THEN s3.cat ELSE cat]

(***************************************************************************)
(* Bookings under test: the arguments are drawn from bounded sets, a       *)
(* booking is made from them by the dataclass constructor (self) and       *)
(* another by BookingManager.add, and occurrence_dates is then called on   *)
(* either, MaxCalls times in all.                                          *)
(***************************************************************************)
\* Anchor dates: ordinary days, a leap-year February, a year's end, the
\* first representable day and days near the last one, 9999-12-31.
Anchors ==
    {Date(2024, 1, 1), Date(2023, 12, 20), Date(2024, 2, 10), Date(1, 1, 1),
     Date(9999, 11, 15), Date(9999, 12, 31)}

\* A value of the repeat field that is no member of RepeatFrequency (the
\* dataclass does not check the type of the field).
Unrecognized == "daily"
RepeatValues == RepeatFrequency \cup {Unrecognized}

Counts == (0 - 1)..MaxOccurrences

ArgSets == [scheduled_date : Anchors, repeat : RepeatValues, occurrences : Counts]

InitExpand ==
    /\ pc = "harness"
    /\ clients = EmptyDict /\ clientCounter = 1 /\ clientLog = <<>>
    /\ services = <<>>
    /\ bookings = EmptyDict /\ bookingCounter = 1 /\ bookingLog = <<>>
    /\ event = None /\ out = <<>>
    /\ args \in ArgSets
    /\ self = None
    /\ calls = <<>>

\* Booking(...) called directly (with id 0, which the manager never gives):
\* the fields are stored as given.
Construct ==
    /\ pc = "harness" /\ self = None
    /\ self' = Booking(0, 1, Txt_MOW, args.scheduled_date, args.repeat,
                       args.occurrences, <<>>)
    /\ UNCHANGED <<pc, clients, clientCounter, services, bookings,
                   bookingCounter, clientLog, bookingLog, event, out, args, calls>>

\* BookingManager.add(...) with the same arguments.
ManagerAdd ==
    /\ pc = "harness" /\ bookingLog = <<>>
    /\ \E r \in {BookingManager_add(bookings, bookingCounter, 1, Txt_MOW,
                                    args.scheduled_date, args.repeat,
                                    args.occurrences, <<>>)} :
           /\ bookings' = r.mgr
           /\ bookingCounter' = r.counter
           /\ bookingLog' = Append(bookingLog, r.ret)
    /\ UNCHANGED <<pc, clients, clientCounter, services, clientLog, event, out,
                   args, self, calls>>

\* self.occurrences_dates() on the booking built directly.  calls records
\* each call: the booking it was made on, whether it raised, and the list it
\* returned.
CallOnSelf ==
    /\ pc = "harness" /\ self # None /\ Len(calls) < MaxCalls
    /\ \E r \in {occurrence_dates(self)} :
           /\ self' = r.self
           /\ calls' = Append(calls, [req |-> self, raised |-> r.raised,
                                      ret |-> r.ret])
    /\ UNCHANGED <<pc, clients, clientCounter, services, bookings, bookingCounter,
                   clientLog, bookingLog, event, out, args>>

\* bookings.get(id).occurrence_dates() on a booking the manager holds.
CallOnStored ==
    /\ pc = "harness" /\ Len(calls) < MaxCalls
    /\ \E id \in DOMAIN bookings :
       \E r \in {occurrence_dates(BookingManager_get(bookings, id))} :
           /\ bookings' = [bookings EXCEPT ![id] = r.self]
           /\ calls' = Append(calls, [req |-> bookings[id], raised |-> r.raised,
                                      ret |-> r.ret])
    /\ UNCHANGED <<pc, clients, clientCounter, services, bookingCounter,
                   clientLog, bookingLog, event, out, args, self>>

NextExpand == Construct \/ ManagerAdd \/ CallOnSelf \/ CallOnStored

SpecExpand == InitExpand /\ [][NextExpand]_vars

(***************************************************************************)
(* The program: main() and the loop of interactive_menu().                 *)
(***************************************************************************)
\* Lines typed at the prompts.
ChoiceLines == {<<"0">>, <<"1">>, <<"2">>, <<"3">>, <<"4">>, <<"5">>, <<"6">>, <<" ", "5">>, <<"9">>, <<>>}
NameLines == {<<" ", "A", "l">>}
CodeLines == {<<"m", "o", "w">>}
PriceLines == {<<"6", "0", ".", "5">>, <<"a", "b", "c">>, <<>>}
DurationLines == {<<"4", ".", "5">>, <<>>}
ClientIdLines == {<<"1">>, <<"x">>}
DateLines == {<<"9", "9", "9", "9", "-", "1", "2", "-", "2", "8">>, <<"2", "0", "2", "4", "-", "0", "2", "-", "3", "0">>}
RepeatLines == {<<>>, <<"W", "e", "e", "k", "l", "y">>, <<"d", "a", "i", "l", "y">>}
OccurrenceLines == {<<>>, <<"0">>, <<" ", "3">>, <<"t", "w", "o">>}

\* date.today() of the demonstration run.
Todays == {Date(2024, 1, 1), Date(9999, 12, 20)}

Event(choice, error) == [choice |-> choice, error |-> error]
NoError == "ok"

\* main() has built its three stores (and nothing is seeded yet).
Init ==
    /\ pc = "main"
    /\ clients = EmptyDict /\ clientCounter = 1 /\ clientLog = <<>>
    /\ services = <<>>
    /\ bookings = EmptyDict /\ bookingCounter = 1 /\ bookingLog = <<>>
    /\ event = None /\ out = <<>>
    /\ args = None /\ self = None /\ calls = <<>>

\* main(): _seed_data(clients, services)
SeedData ==
    /\ pc = "main"
    /\ \E r \in {_seed_data(clients, clientCounter, services)} :
           /\ clients' = r.db
           /\ clientCounter' = r.counter
           /\ clientLog' = clientLog \o r.added
           /\ services' = r.cat
    /\ pc' = "seeded"
    /\ UNCHANGED <<bookings, bookingCounter, bookingLog, event, out, args, self, calls>>

\* main() --non-interactive: list the seed data, add the sample booking,
\* print the bookings (an error there ends the program), return.
Demo ==
    /\ pc = "seeded"
    /\ \E today \in Todays :
       \E a \in {BookingManager_add(bookings, bookingCounter, 1, Txt_MOW, today,
                                    FORTNIGHTLY, 3, <<"Front and back lawns">>)} :
       \E r \in {_print_bookings(a.mgr, clients, services)} :
             /\ bookings' = r.mgr
             /\ bookingCounter' = a.counter
             /\ bookingLog' = Append(bookingLog, a.ret)
             /\ out' = _print_clients(clients) \o _print_services(services) \o r.out
             /\ event' = Event(<<"demo">>, IF r.raised THEN "OverflowError" ELSE NoError)
             /\ pc' = IF r.raised THEN "crashed" ELSE "done"
    /\ UNCHANGED <<clients, clientCounter, clientLog, services, args, self, calls>>

\* interactive_menu(): three new stores, seeded.
InteractiveMenu ==
    /\ pc = "seeded"
    /\ \E r \in {_seed_data(EmptyDict, 1, <<>>)} :
           /\ clients' = r.db
           /\ clientCounter' = r.counter
           /\ clientLog' = r.added
           /\ services' = r.cat
    /\ bookings' = EmptyDict /\ bookingCounter' = 1 /\ bookingLog' = <<>>
    /\ pc' = "menu"
    /\ UNCHANGED <<event, out, args, self, calls>>

\* The menu is shown and the line typed at "Select an option" strips to c.
Chosen(c) == pc = "menu" /\ \E line \in ChoiceLines : strip(line) = c

Choice1 ==
    /\ Chosen(<<"1">>)
    /\ out' = _print_clients(clients)
    /\ event' = Event(<<"1">>, NoError)
    /\ UNCHANGED <<pc, clients, clientCounter, clientLog, services, bookings,
                   bookingCounter, bookingLog, args, self, calls>>

Choice2 ==
    /\ Chosen(<<"2">>)
    /\ clientCounter <= MaxClients
    /\ \E first \in NameLines :
       \E r \in {ClientDB_add(clients, clientCounter, strip(first), strip(<<"B">>),
                               strip(<<"e">>), strip(<<"p">>), strip(<<"a">>),
                               strip(<<>>))} :
             /\ clients' = r.db
             /\ clientCounter' = r.counter
             /\ clientLog' = Append(clientLog, r.ret)
             /\ out' = <<<<"Added client", r.ret.id, full_name(r.ret)>>>>
    /\ event' = Event(<<"2">>, NoError)
    /\ UNCHANGED <<pc, services, bookings, bookingCounter, bookingLog, args,
                   self, calls>>

Choice3 ==
    /\ Chosen(<<"3">>)
    /\ out' = _print_services(services)
    /\ event' = Event(<<"3">>, NoError)
    /\ UNCHANGED <<pc, clients, clientCounter, clientLog, services, bookings,
                   bookingCounter, bookingLog, args, self, calls>>

\* Option 4 calling services.add before the duration is converted: a bad
\* duration is caught with the service already stored.
Choice4_add_before_duration ==
    /\ Chosen(<<"4">>)
    /\ \E code \in CodeLines, priceLine \in PriceLines, durLine \in DurationLines :
       \E price \in {IF strip(priceLine) = <<>> THEN float(<<"0">>)
                     ELSE float(strip(priceLine))} :
         IF price.raised
         THEN /\ services' = services
              /\ out' = <<"Error">>
              /\ event' = Event(<<"4">>, "ValueError")
         ELSE \E r \in {ServiceCatalog_add(services, strip(code), strip(<<"n">>),
                                           strip(<<"d">>), price.value, 0)} :
              \E duration \in {IF strip(durLine) = <<>> THEN int(<<"0">>)
                               ELSE int(strip(durLine))} :
                   /\ services' = r.cat
                   /\ out' = IF duration.raised THEN <<"Error">>
                             ELSE <<<<"Added service", r.ret.code, r.ret.name>>>>
                   /\ event' = Event(<<"4">>, IF duration.raised THEN "ValueError"
                                              ELSE NoError)
    /\ UNCHANGED <<pc, clients, clientCounter, clientLog, bookings,
                   bookingCounter, bookingLog, args, self, calls>>

\* price = float(... or 0), duration = int(... or 0), then services.add;
\* a ValueError of either conversion is caught by the loop's except.
Choice4 ==
    /\ Chosen(<<"4">>)
    /\ \E code \in CodeLines, priceLine \in PriceLines, durLine \in DurationLines :
       \E price \in {IF strip(priceLine) = <<>> THEN float(<<"0">>)
                     ELSE float(strip(priceLine))} :
         IF price.raised
         THEN /\ services' = services
              /\ out' = <<"Error">>
              /\ event' = Event(<<"4">>, "ValueError")
         ELSE \E duration \in {IF strip(durLine) = <<>> THEN int(<<"0">>)
                               ELSE int(strip(durLine))} :
              IF duration.raised
              THEN /\ services' = services
                   /\ out' = <<"Error">>
                   /\ event' = Event(<<"4">>, "ValueError")
              ELSE \E r \in {ServiceCatalog_add(services, strip(code), strip(<<"n">>),
                                                strip(<<"d">>), price.value,
                                                duration.value)} :
                   /\ services' = r.cat
                   /\ out' = <<<<"Added service", r.ret.code, r.ret.name>>>>
                   /\ event' = Event(<<"4">>, NoError)
    /\ UNCHANGED <<pc, clients, clientCounter, clientLog, bookings,
                   bookingCounter, bookingLog, args, self, calls>>

\* _print_bookings; an OverflowError of occurrence_dates is caught by the
\* loop's except.
Choice5 ==
    /\ Chosen(<<"5">>)
    /\ \E r \in {_print_bookings(bookings, clients, services)} :
           /\ bookings' = r.mgr
           /\ out' = IF r.raised THEN Append(r.out, "Error") ELSE r.out
           /\ event' = Event(<<"5">>, IF r.raised THEN "OverflowError" ELSE NoError)
    /\ UNCHANGED <<pc, clients, clientCounter, clientLog, services,
                   bookingCounter, bookingLog, args, self, calls>>

\* The prompts of option 6 in their order: int(client id), the service code,
\* strptime(date), the repeat string, int(occurrences or 1), and only then
\* bookings.add.  A ValueError on the way is caught by the loop's except.
Choice6 ==
    /\ Chosen(<<"6">>)
    /\ \E idLine \in ClientIdLines, code \in CodeLines, dateLine \in DateLines,
          repeatLine \in RepeatLines, occLine \in OccurrenceLines :
       \E listed \in {_print_clients(clients)} :
       \E client_id \in {int(strip(idLine))} :
         IF client_id.raised
         THEN /\ out' = Append(listed, "Error")
              /\ event' = Event(<<"6">>, "ValueError")
              /\ UNCHANGED <<bookings, bookingCounter, bookingLog>>
         ELSE
       \E listed2 \in {listed \o _print_services(services)} :
       \E scheduled_date \in {strptime(strip(dateLine))} :
         IF scheduled_date.raised
         THEN /\ out' = Append(listed2, "Error")
              /\ event' = Event(<<"6">>, "ValueError")
              /\ UNCHANGED <<bookings, bookingCounter, bookingLog>>
         ELSE
       \E repeat \in {ParseRepeat(repeatLine)} :
       \E occurrences \in {IF strip(occLine) = <<>> THEN [raised |-> FALSE, value |-> 1]
                           ELSE int(strip(occLine))} :
         IF occurrences.raised
         THEN /\ out' = Append(listed2, "Error")
              /\ event' = Event(<<"6">>, "ValueError")
              /\ UNCHANGED <<bookings, bookingCounter, bookingLog>>
         ELSE
       \E r \in {BookingManager_add(bookings, bookingCounter, client_id.value,
                                    strip(code), scheduled_date.value, repeat,
                                    occurrences.value, strip(<<>>))} :
              /\ bookingCounter <= MaxBookings
              /\ bookings' = r.mgr
              /\ bookingCounter' = r.counter
              /\ bookingLog' = Append(bookingLog, r.ret)
              /\ out' = Append(listed2,
                               <<"Added booking", r.ret.id, client_id.value,
                                 isoformat(scheduled_date.value)>>)
              /\ event' = Event(<<"6">>, NoError)
    /\ UNCHANGED <<pc, clients, clientCounter, clientLog, services, args, self, calls>>

Choice0 ==
    /\ Chosen(<<"0">>)
    /\ out' = <<"Goodbye!">>
    /\ event' = Event(<<"0">>, NoError)
    /\ pc' = "exit"
    /\ UNCHANGED <<clients, clientCounter, clientLog, services, bookings,
                   bookingCounter, bookingLog, args, self, calls>>

ChoiceOther ==
    /\ pc = "menu"
    /\ \E line \in ChoiceLines :
         /\ strip(line) \notin {<<"0">>, <<"1">>, <<"2">>, <<"3">>, <<"4">>,
                                <<"5">>, <<"6">>}
         /\ event' = Event(strip(line), NoError)
    /\ out' = <<"Invalid option. Please try again.">>
    /\ UNCHANGED <<pc, clients, clientCounter, clientLog, services, bookings,
                   bookingCounter, bookingLog, args, self, calls>>

Next ==
    \/ SeedData \/ Demo \/ InteractiveMenu
    \/ Choice1 \/ Choice2 \/ Choice3 \/ Choice4 \/ Choice5 \/ Choice6
    \/ Choice0 \/ ChoiceOther

Spec == Init /\ [][Next]_vars

(***************************************************************************)
(* Properties of occurrence_dates, over the calls made on the Booking      *)
(* under test (SpecExpand).                                                *)
(***************************************************************************)
Recurring == {WEEKLY, FORTNIGHTLY, MONTHLY}

\* The number of days the specification gives each recurring frequency.
StepDays(repeat) ==
    CASE repeat = WEEKLY -> 7 [] repeat = FORTNIGHTLY -> 14 [] repeat = MONTHLY -> 30

Call(i) == calls[i]
Called == 1..Len(calls)

\* Each element after the first is its predecessor plus StepDays days.
FixedSteps(ret, repeat) ==
    \A j \in 2..Len(ret) : toordinal(ret[j]) = toordinal(ret[j - 1]) + StepDays(repeat)

\* C1: for every anchor date and every count n >= 2, a weekly, fortnightly
\* or monthly booking's occurrence_dates returns a sequence that starts with
\* the anchor date and whose every later element is its predecessor plus 7,
\* 14 or 30 calendar days; anchor 2024-01-01, monthly, 3 gives 2024-01-01,
\* 2024-01-31, 2024-03-01.
C1_FixedOffsets ==
    \A i \in Called :
       (Call(i).req.occurrences >= 2 /\ Call(i).req.repeat \in Recurring) =>
          /\ ~Call(i).raised
          /\ Len(Call(i).ret) >= 1
          /\ Call(i).ret[1] = Call(i).req.scheduled_date
          /\ FixedSteps(Call(i).ret, Call(i).req.repeat)
          /\ (/\ Call(i).req.scheduled_date = Date(2024, 1, 1)
              /\ Call(i).req.repeat = MONTHLY
              /\ Call(i).req.occurrences = 3)
             => Call(i).ret = <<Date(2024, 1, 1), Date(2024, 1, 31), Date(2024, 3, 1)>>

\* C1, in the calls that return: where occurrence_dates returns, the
\* sequence has exactly the fixed offsets of C1 (kept beside C1 to show
\* that C1 fails by the raised OverflowError alone).
C1_FixedOffsetsWhereReturned ==
    \A i \in Called :
       (/\ Call(i).req.occurrences >= 2 /\ Call(i).req.repeat \in Recurring
        /\ ~Call(i).raised) =>
          /\ Len(Call(i).ret) >= 1
          /\ Call(i).ret[1] = Call(i).req.scheduled_date
          /\ FixedSteps(Call(i).ret, Call(i).req.repeat)
          /\ (/\ Call(i).req.scheduled_date = Date(2024, 1, 1)
              /\ Call(i).req.repeat = MONTHLY
              /\ Call(i).req.occurrences = 3)
             => Call(i).ret = <<Date(2024, 1, 1), Date(2024, 1, 31), Date(2024, 3, 1)>>

\* C2 as stated: for all anchor dates, all frequencies and every count
\* n >= 1, the sequence occurrence_dates returns has length exactly n.
C2_LengthIsCount ==
    \A i \in Called :
       (/\ Call(i).req.repeat \in RepeatFrequency /\ Call(i).req.occurrences >= 1
        /\ ~Call(i).raised) =>
          Len(Call(i).ret) = Call(i).req.occurrences

\* The last date of a recurring request would lie after 9999-12-31.
PastMaxDate(req) ==
    toordinal(req.scheduled_date) + StepDays(req.repeat) * (req.occurrences - 1)
        > 3652059

\* C2, amended: for every anchor date and every count n >= 1, a booking with
\* frequency none gets a sequence of length exactly 1, and a weekly,
\* fortnightly or monthly booking gets a sequence of length exactly n,
\* unless its last date would lie after 9999-12-31, when the call raises
\* OverflowError and returns nothing.
C2_LengthByFrequency ==
    \A i \in Called :
       (Call(i).req.repeat \in RepeatFrequency /\ Call(i).req.occurrences >= 1) =>
          IF Call(i).req.repeat = NONE
          THEN ~Call(i).raised /\ Len(Call(i).ret) = 1
          ELSE /\ Call(i).raised <=> PastMaxDate(Call(i).req)
               /\ ~Call(i).raised => Len(Call(i).ret) = Call(i).req.occurrences

\* A recurring booking of three occurrences was expanded to three dates.
C2_Witness ==
    \E i \in Called :
       /\ Call(i).req.repeat \in Recurring /\ Call(i).req.occurrences = 3
       /\ ~Call(i).raised /\ Len(Call(i).ret) = 3

\* C3: with frequency none (any count), or with count 1 (any frequency),
\* occurrence_dates returns exactly the one-element sequence of the anchor
\* date.
C3_SingleDate ==
    \A i \in Called :
       (Call(i).req.repeat = NONE \/ Call(i).req.occurrences = 1) =>
          ~Call(i).raised /\ Call(i).ret = <<Call(i).req.scheduled_date>>

\* A booking with frequency none and a count of at least 2 was expanded.
C3_Witness ==
    \E i \in Called :
       /\ Call(i).req.repeat = NONE /\ Call(i).req.occurrences >= 2
       /\ Call(i).ret = <<Call(i).req.scheduled_date>>

\* C4: for every valid request (a frequency of the enumeration) with a
\* count of at least 2, every date of the returned sequence is strictly
\* later than the date before it.
C4_StrictlyIncreasing ==
    \A i \in Called :
       (Call(i).req.repeat \in RepeatFrequency /\ Call(i).req.occurrences >= 2) =>
          \A j \in 2..Len(Call(i).ret) : DateLess(Call(i).ret[j - 1], Call(i).ret[j])

\* A monthly booking with a count of at least 3 was expanded to as many dates.
C4_Witness ==
    \E i \in Called :
       /\ Call(i).req.repeat = MONTHLY /\ Call(i).req.occurrences >= 3
       /\ Len(Call(i).ret) = Call(i).req.occurrences

\* C5: a zero or negative count is never rejected: occurrence_dates on a
\* booking with occurrences <= 0 returns what it returns for occurrences
\* = 1, the anchor date alone; and BookingManager.add stores max(1,
\* occurrences), so every booking it made has occurrences >= 1.
C5_CountNormalized ==
    /\ \A i \in Called :
          Call(i).req.occurrences <= 0 =>
             /\ ~Call(i).raised
             /\ Call(i).ret = <<Call(i).req.scheduled_date>>
             /\ Call(i).ret =
                  occurrence_dates([Call(i).req EXCEPT !.occurrences = 1]).ret
    /\ \A k \in 1..Len(bookingLog) :
          /\ bookingLog[k].occurrences >= 1
          /\ bookingLog[k].occurrences = Max(1, args.occurrences)
          /\ BookingManager_get(bookings, bookingLog[k].id).occurrences >= 1

\* A weekly booking built with a count below 1 was expanded, and the
\* manager was handed the same count and stored a booking.
C5_Witness ==
    /\ args.occurrences <= 0 /\ args.repeat = WEEKLY
    /\ \E i \in Called : Call(i).req.occurrences <= 0
    /\ Len(bookingLog) = 1

\* C6: a frequency outside the enumeration is treated as none: for every
\* anchor date and every count, counts of 2 and more included,
\* occurrence_dates returns exactly the anchor date alone; and the menu
\* reads every repeat string outside the four values as none.
C6_UnrecognizedIsNone ==
    /\ \A i \in Called :
          Call(i).req.repeat \notin RepeatFrequency =>
             ~Call(i).raised /\ Call(i).ret = <<Call(i).req.scheduled_date>>
    /\ \A line \in RepeatLines :
          lower(strip(line)) \notin DOMAIN _value2member_map_ =>
             ParseRepeat(line) = NONE

\* C7: occurrence_dates is total: for every anchor date of the calendar,
\* dates near 9999-12-31 included, every count and every frequency value it
\* returns a sequence of dates, after at most count steps, and never
\* raises.
C7_NeverRaises ==
    \A i \in Called :
       /\ ~Call(i).raised
       /\ Len(Call(i).ret) >= 1
       /\ Len(Call(i).ret) <= Max(1, Call(i).req.occurrences)

\* C8: occurrence_dates is pure: two calls on the same booking return the
\* same, and a call leaves the booking's fields, the manager's stored
\* bookings and its id counter as they were.
C8_Pure ==
    /\ [](\A i \in Called, j \in Called :
             Call(i).req = Call(j).req =>
                Call(i).raised = Call(j).raised /\ Call(i).ret = Call(j).ret)
    /\ [][Len(calls') > Len(calls) =>
             /\ self' = self
             /\ bookings' = bookings
             /\ bookingCounter' = bookingCounter]_vars

\* A booking held by the manager, recurring with three occurrences, was
\* expanded twice.
C8_Witness ==
    /\ Len(calls) >= 2 /\ Len(bookingLog) = 1
    /\ Call(1).req = bookingLog[1] /\ Call(2).req = bookingLog[1]
    /\ bookingLog[1].repeat \in Recurring /\ bookingLog[1].occurrences = 3
    /\ Len(Call(2).ret) = 3

C10_IdsAndRecords ==
    /\ DOMAIN clients = 1..Len(clientLog)
    /\ clientCounter = Len(clientLog) + 1
    /\ \A k \in 1..Len(clientLog) :
          /\ clientLog[k].id = k
          /\ ClientDB_get(clients, k) = clientLog[k]
    /\ DOMAIN bookings = 1..Len(bookingLog)
    /\ bookingCounter = Len(bookingLog) + 1
    /\ \A k \in 1..Len(bookingLog) :
          /\ bookingLog[k].id = k
          /\ BookingManager_get(bookings, k) = bookingLog[k]

\* Three clients and two bookings have been added.
C10_Witness == Len(clientLog) = 3 /\ Len(bookingLog) = 2

====
